---- MODULE Spec2Model ----
(***************************************************************************)
(* Correlated multi-leg risk engine of blackbox-v3: correlation matrix,    *)
(* Gaussian-copula sampler, Kelly staker and portfolio stress simulator.   *)
(*                                                                         *)
(* Numbers.  Python floats are modelled as exact rationals <<n, d>> with   *)
(* d > 0 and gcd(n, d) = 1.  A pair with d = 0 is not a number: <<0, 0>>   *)
(* stands for a raised ZeroDivisionError, <<1, 0>> for a key that is       *)
(* missing from a configuration mapping.  Only var_es, whose result        *)
(* depends on the rounding of a float sum, uses the rounded arithmetic of  *)
(* the section "binary floating point" below.                              *)
(***************************************************************************)
EXTENDS Integers, Sequences, FiniteSets, TLC

VARIABLES call, ret, rng, inv, sim

vars == <<call, ret, rng, inv, sim>>

\* value of the variables a specification does not use
Idle == "idle"
\* ret before the called function has returned
NoRet == [fn |-> "none"]

----------------------------------------------------------------------------
(* Exact rational arithmetic *)

Abs(x) == IF x < 0 THEN -x ELSE x

RECURSIVE GCD(_, _)
GCD(a, b) == IF b = 0 THEN a ELSE GCD(b, a % b)

Norm(n, d) ==
  LET s == IF d < 0 THEN -1 ELSE 1
      g == GCD(Abs(n), Abs(d))
  IN  <<(s * n) \div g, (s * d) \div g>>

Q(n, d) == Norm(n, d)
Zero == <<0, 1>>
One == <<1, 1>>
ZeroDivisionError == <<0, 0>>
Missing == <<1, 0>>
IsNum(x) == x[2] # 0

RAdd(x, y) == Norm(x[1] * y[2] + y[1] * x[2], x[2] * y[2])
RSub(x, y) == Norm(x[1] * y[2] - y[1] * x[2], x[2] * y[2])
RMul(x, y) ==
  LET a == Norm(x[1], y[2])
      b == Norm(y[1], x[2])
  IN  Norm(a[1] * b[1], a[2] * b[2])
\* x / y; ZeroDivisionError when y = 0
RDiv(x, y) == IF y[1] = 0 THEN ZeroDivisionError ELSE RMul(x, Norm(y[2], y[1]))
RLe(x, y) == x[1] * y[2] <= y[1] * x[2]
RLt(x, y) == x[1] * y[2] < y[1] * x[2]
\* Python's min(a, b, ...) and max(a, b): the first of the smallest / largest
RMin2(x, y) == IF RLt(y, x) THEN y ELSE x
RMax2(x, y) == IF RLt(x, y) THEN y ELSE x
RMin3(x, y, z) == RMin2(RMin2(x, y), z)

\* round(x, 2): the nearest multiple of 1/100, a tie going to the even one
PyRound2(x) ==
  LET n == x[1] * 100
      d == x[2]
      q == n \div d
      r == n - q * d
      c == IF 2 * r < d THEN q
           ELSE IF 2 * r > d THEN q + 1
           ELSE IF q % 2 = 0 THEN q ELSE q + 1
  IN  Norm(c, 100)

----------------------------------------------------------------------------
(* sliprisk/portfolio.py: the Kelly staker *)

american_to_decimal(A) ==
  IF A > 0 THEN Q(100 + A, 100)
  ELSE IF A = 0 THEN ZeroDivisionError
  ELSE Q(Abs(A) + 100, Abs(A))

RECURSIVE slip_decimal_payout(_)
\* legs: sequence of American prices; the product is taken front to back
slip_decimal_payout(legs) ==
  IF legs = <<>> THEN One
  ELSE LET rest == slip_decimal_payout(SubSeq(legs, 1, Len(legs) - 1))
           d == american_to_decimal(legs[Len(legs)])
       IN  IF ~IsNum(rest) \/ ~IsNum(d) THEN ZeroDivisionError
           ELSE RMul(rest, d)

kelly_edge_no_loss(p_joint, decimal_payout) ==
  RMul(p_joint, RSub(decimal_payout, One))

kelly_edge(p_joint, decimal_payout) ==
  RSub(RMul(p_joint, RSub(decimal_payout, One)), RSub(One, p_joint))

kelly_fraction_nofloor(p_joint, decimal_payout) ==
  LET b == RSub(decimal_payout, One)
  IN  IF RLe(b, Zero) THEN Zero
      ELSE RDiv(kelly_edge(p_joint, decimal_payout), b)

kelly_fraction(p_joint, decimal_payout) ==
  LET b == RSub(decimal_payout, One)
      edge == kelly_edge(p_joint, decimal_payout)
  IN  IF RLe(b, Zero) THEN Zero
      ELSE RMax2(Zero, RDiv(edge, b))

\* bankroll/kelly.py: kelly_fraction(p, american), the Kelly fraction of one leg
bankroll_kelly_fraction(p, american) ==
  LET d == american_to_decimal(american)
  IN  IF ~IsNum(d) THEN ZeroDivisionError
      ELSE LET b == RSub(d, One)
               edge == RSub(RMul(p, b), RSub(One, p))
           IN  IF RLt(Zero, b) THEN RMax2(Zero, RDiv(edge, b)) ELSE Zero

\* the defaults written in apply_caps
DefaultTier == [present |-> TRUE, unit_cap |-> Q(3, 4), br_cap |-> Q(3, 200)]
DefaultBrCap == Q(3, 200)
DefaultPerSlipUnitCap == Q(6, 5)

\* d.get(k, dflt) for a value that is Missing when the key is absent
GetOr(v, dflt) == IF IsNum(v) THEN v ELSE dflt

\* cfg.get('rsi_caps', {}).get(rsi_level, {...})
TierOf(cfg, rsi_level) ==
  IF rsi_level \in DOMAIN cfg.rsi_caps /\ cfg.rsi_caps[rsi_level].present
  THEN cfg.rsi_caps[rsi_level]
  ELSE DefaultTier

PerSlipUnitCapOf(cfg) == GetOr(cfg.per_slip_unit_cap, DefaultPerSlipUnitCap)
BrCapOf(cfg, rsi_level) == GetOr(TierOf(cfg, rsi_level).br_cap, DefaultBrCap)

apply_caps(f, bankroll, unit, cfg, rsi_level) ==
  LET rsi == TierOf(cfg, rsi_level)
      per_slip_unit_cap == PerSlipUnitCapOf(cfg)
      cap_unit == RMul(per_slip_unit_cap, unit)
      cap_br == RMul(GetOr(rsi.br_cap, DefaultBrCap), bankroll)
  IN  RMin3(RMul(f, bankroll), cap_unit, cap_br)

\* stake_for_slip; p_joint is the value slip_joint_prob returned
stake_for_slip(legs, p_joint, bankroll, unit, kelly_frac, cfg) ==
  LET dec_out == slip_decimal_payout(legs)
  IN  IF ~IsNum(dec_out)
      THEN [fn |-> "stake_for_slip", raised |-> TRUE, stake |-> Zero,
            capped |-> Zero, p_joint |-> p_joint, dec_out |-> dec_out,
            f_full |-> Zero, f_use |-> Zero]
      ELSE LET f_full == kelly_fraction(p_joint, dec_out)
               f_use == RMul(f_full, kelly_frac)
               stake == apply_caps(f_use, bankroll, unit, cfg, "medium")
           IN  [fn |-> "stake_for_slip", raised |-> FALSE,
                stake |-> RMax2(Zero, PyRound2(stake)),
                capped |-> stake, p_joint |-> p_joint, dec_out |-> dec_out,
                f_full |-> f_full, f_use |-> f_use]

----------------------------------------------------------------------------
(* Inputs of the staking calls *)

MaxLegs == 2

Bankrolls == {Zero, Q(201, 2), Q(1000, 1), Q(10000, 1)}
Units == {Zero, Q(10, 1), Q(100, 1)}
KellyFracs == {Q(1, 4), Q(1, 2), One}
JointProbs == {Zero, Q(1, 4), Q(3, 10), Q(1, 2), Q(9, 10), One}
Prices == {-400, -200, 0, 100, 250}
Payouts == {Q(1, 2), One, Q(3, 2), Q(7, 2)}
Tiers == {"low", "medium", "high"}

LegLists == UNION {[1..n -> Prices] : n \in 1..MaxLegs}

NoTier == [present |-> FALSE, unit_cap |-> Missing, br_cap |-> Missing]
Tier(u, b) == [present |-> TRUE, unit_cap |-> u, br_cap |-> b]

\* parsed slip_policy.yaml files: rsi_caps by tier and risk_budget.per_slip_unit_cap
Policies ==
  { [rsi_caps |-> [t \in Tiers |-> NoTier], per_slip_unit_cap |-> Missing],
    [rsi_caps |-> [t \in Tiers |-> IF t = "low" THEN Tier(One, Q(1, 50))
                                   ELSE IF t = "medium" THEN Tier(Q(3, 4), Q(3, 200))
                                   ELSE Tier(Q(1, 2), Q(1, 100))],
     per_slip_unit_cap |-> Q(6, 5)],
    [rsi_caps |-> [t \in Tiers |-> IF t = "medium" THEN Tier(Q(1, 2), Missing)
                                   ELSE NoTier],
     per_slip_unit_cap |-> One],
    [rsi_caps |-> [t \in Tiers |-> IF t = "medium" THEN Tier(Missing, Q(1, 20))
                                   ELSE NoTier],
     per_slip_unit_cap |-> Q(2, 1)],
    [rsi_caps |-> [t \in Tiers |-> IF t = "high" THEN Tier(Q(1, 2), Q(1, 100))
                                   ELSE NoTier],
     per_slip_unit_cap |-> Q(3, 2)] }

StakeCalls ==
  [fn : {"stake_for_slip"}, legs : LegLists, p_joint : JointProbs,
   bankroll : Bankrolls, unit : Units, kelly_frac : KellyFracs, cfg : Policies]

KellyCalls == [fn : {"kelly_fraction"}, p_joint : JointProbs, decimal_payout : Payouts]
LegKellyCalls == [fn : {"bankroll_kelly_fraction"}, p : JointProbs, american : Prices]

----------------------------------------------------------------------------
(* Specification of the staking calls: one call, then its return value *)

InitStake ==
  /\ call \in StakeCalls \cup KellyCalls \cup LegKellyCalls
  /\ ret = NoRet
  /\ rng = Idle
  /\ inv = Idle
  /\ sim = Idle

CallStakeForSlip ==
  /\ call.fn = "stake_for_slip"
  /\ ret = NoRet
  /\ ret' = stake_for_slip(call.legs, call.p_joint, call.bankroll, call.unit,
                           call.kelly_frac, call.cfg)
  /\ UNCHANGED <<call, rng, inv, sim>>

CallKellyFraction ==
  /\ call.fn = "kelly_fraction"
  /\ ret = NoRet
  /\ ret' = [fn |-> "kelly_fraction",
             val |-> kelly_fraction(call.p_joint, call.decimal_payout)]
  /\ UNCHANGED <<call, rng, inv, sim>>

CallBankrollKellyFraction ==
  /\ call.fn = "bankroll_kelly_fraction"
  /\ ret = NoRet
  /\ ret' = [fn |-> "bankroll_kelly_fraction",
             val |-> bankroll_kelly_fraction(call.p, call.american)]
  /\ UNCHANGED <<call, rng, inv, sim>>

NextStake == CallStakeForSlip \/ CallKellyFraction \/ CallBankrollKellyFraction

SpecStake == InitStake /\ [][NextStake]_vars

Staked == ret.fn = "stake_for_slip" /\ ~ret.raised

\* the ceilings apply_caps reads from the policy for the tier stake_for_slip names
CapBr == RMul(BrCapOf(call.cfg, "medium"), call.bankroll)
CapUnit == RMul(PerSlipUnitCapOf(call.cfg), call.unit)
CapTierUnit == RMul(GetOr(TierOf(call.cfg, "medium").unit_cap, Q(3, 4)), call.unit)

\* C1: the stake returned by stake_for_slip is never negative and never
\* greater than min(bankroll x br_cap, unit x per_slip_unit_cap).
C1_CapEnforcement ==
  Staked => /\ RLe(Zero, ret.stake)
            /\ RLe(ret.stake, RMin2(CapBr, CapUnit))

\* C2: whenever b*p - (1-p) <= 0 with b = D - 1, or b <= 0, kelly_fraction
\* returns exactly 0 and stake_for_slip returns a stake of exactly 0.
C2_NoBet ==
  /\ (Staked /\ (\/ RLe(kelly_edge(call.p_joint, ret.dec_out), Zero)
                 \/ RLe(ret.dec_out, One)))
        => (ret.f_full = Zero /\ ret.stake = Zero)
  /\ (ret.fn = "kelly_fraction"
        /\ (\/ RLe(kelly_edge(call.p_joint, call.decimal_payout), Zero)
            \/ RLe(call.decimal_payout, One)))
        => ret.val = Zero

\* a bet with negative edge although bankroll, unit and multiplier would allow a stake
C2_Witness ==
  /\ Staked
  /\ RLt(kelly_edge(call.p_joint, ret.dec_out), Zero)
  /\ RLt(Zero, call.bankroll)
  /\ RLt(Zero, call.unit)
  /\ ret.stake = Zero

\* C7: the currency rounding at the end of stake_for_slip never increases the
\* amount: the returned stake is <= the amount apply_caps returned.
C7_RoundsDown == Staked => RLe(ret.stake, ret.capped)

\* the worked example: p_joint = 0.3, payout 3.5, multiplier 0.5, bankroll 10000
WorkedExample ==
  /\ Staked
  /\ call.p_joint = Q(3, 10)
  /\ ret.dec_out = Q(7, 2)
  /\ call.kelly_frac = Q(1, 2)
  /\ call.bankroll = Q(10000, 1)

\* C21: for joint probability 0.3 and combined payout 3.5 kelly_fraction
\* returns 0.02; with multiplier 0.5 and bankroll 10000 the amount before
\* caps is 100, and stake_for_slip returns 100.00 whenever both caps are at
\* least 100.
C21_WorkedKellyExample ==
  /\ (ret.fn = "kelly_fraction" /\ call.p_joint = Q(3, 10)
        /\ call.decimal_payout = Q(7, 2)) => ret.val = Q(1, 50)
  /\ WorkedExample =>
       /\ ret.f_full = Q(1, 50)
       /\ RMul(ret.f_use, call.bankroll) = Q(100, 1)
       /\ (RLe(Q(100, 1), CapBr) /\ RLe(Q(100, 1), CapUnit)) => ret.stake = Q(100, 1)

\* the example staked under a policy whose two caps are 150 and 120
C21_Witness ==
  /\ WorkedExample
  /\ call.legs = <<250>>
  /\ CapBr = Q(150, 1)
  /\ CapUnit = Q(120, 1)
  /\ ret.stake = Q(100, 1)

C17_PayoutKellyTotal ==
  /\ ret.fn = "stake_for_slip" =>
       /\ ~ret.raised
       /\ IsNum(ret.dec_out)
       /\ RLe(ret.dec_out, One) => ret.f_full = Zero
  /\ (ret.fn = "kelly_fraction" /\ RLe(call.decimal_payout, One)) => ret.val = Zero

\* C8: the stake is bounded by every ceiling, the two caps of the risk tier
\* included: stake <= tier.unit_cap x unit, stake <= tier.br_cap x bankroll
\* and stake <= per_slip_unit_cap x unit.
C8_TierCaps ==
  Staked => /\ RLe(ret.stake, CapTierUnit)
            /\ RLe(ret.stake, CapBr)
            /\ RLe(ret.stake, CapUnit)

----------------------------------------------------------------------------
(* Binary floating point.  A float keeps MantBits significant bits (53 in   *)
(* CPython); values are counted in units of the smallest positive float, so *)
(* every float is an integer and every integer below 2^MantBits is a float. *)
(* Each arithmetic operation returns the float nearest to the exact result, *)
(* a tie going to the even mantissa (IEEE 754 round-half-even).             *)

MantBits == 3

RECURSIVE Pow2(_)
Pow2(k) == IF k = 0 THEN 1 ELSE 2 * Pow2(k - 1)

RECURSIVE FlStep(_, _, _)
\* spacing of the floats around a/d: the least power of two with a/d < 2^MantBits * step
FlStep(a, d, step) ==
  IF a < Pow2(MantBits) * step * d THEN step ELSE FlStep(a, d, 2 * step)

\* the float nearest to n/d, d > 0
FlRound(n, d) ==
  LET a == Abs(n)
      step == FlStep(a, d, 1)
      u == d * step
      q == a \div u
      r == a - q * u
      m == IF 2 * r < u THEN q
           ELSE IF 2 * r > u THEN q + 1
           ELSE IF q % 2 = 0 THEN q ELSE q + 1
  IN  IF n < 0 THEN -(m * step) ELSE m * step

FlAdd(x, y) == FlRound(x + y, 1)
FlDiv(x, n) == FlRound(x, n)

RECURSIVE FlSum(_)
\* sum(seq): the items are added front to back, starting from 0
FlSum(seq) ==
  IF seq = <<>> THEN 0
  ELSE FlAdd(FlSum(SubSeq(seq, 1, Len(seq) - 1)), seq[Len(seq)])

----------------------------------------------------------------------------
(* stress/monte.py: var_es *)

RECURSIVE Insert(_, _)
Insert(x, seq) ==
  IF seq = <<>> THEN <<x>>
  ELSE IF x <= Head(seq) THEN <<x>> \o seq
  ELSE <<Head(seq)>> \o Insert(x, Tail(seq))

RECURSIVE sorted(_)
sorted(seq) == IF seq = <<>> THEN <<>> ELSE Insert(Head(seq), sorted(Tail(seq)))

\* int(alpha * n) for alpha = <<a, b>> >= 0
IntOfProduct(alpha, n) == (alpha[1] * n) \div alpha[2]

Max2(x, y) == IF x >= y THEN x ELSE y

var_es(paths, alpha) ==
  LET n == Len(paths)
  IN  IF n = 0 THEN [fn |-> "var_es", var |-> 0, es |-> 0, idx |-> 0]
      ELSE LET sorted_p == sorted(paths)
               idx == Max2(0, IntOfProduct(alpha, n) - 1)
               var == sorted_p[idx + 1]
               tail == SubSeq(sorted_p, 1, idx + 1)
               es == IF tail # <<>> THEN FlDiv(FlSum(tail), Len(tail)) ELSE var
           IN  [fn |-> "var_es", var |-> var, es |-> es, idx |-> idx]

MaxPaths == 3

\* path P&L values, all of them floats
PathVals == {-7, -6, -2, 0, 3, 6}
Alphas == {Zero, Q(1, 20), Q(1, 3), Q(1, 2), Q(2, 3), One}
PathLists == UNION {[1..n -> PathVals] : n \in 0..MaxPaths}
VarEsCalls == [fn : {"var_es"}, paths : PathLists, alpha : Alphas]

InitVarEs ==
  /\ call \in VarEsCalls
  /\ ret = NoRet
  /\ rng = Idle
  /\ inv = Idle
  /\ sim = Idle

CallVarEs ==
  /\ call.fn = "var_es"
  /\ ret = NoRet
  /\ ret' = var_es(call.paths, call.alpha)
  /\ UNCHANGED <<call, rng, inv, sim>>

NextVarEs == CallVarEs

SpecVarEs == InitVarEs /\ [][NextVarEs]_vars

\* C3: for every non-empty list of path P&L values and every alpha in [0,1],
\* the Expected Shortfall returned by var_es is <= the VaR of the same call.
C3_EsLeVar ==
  (ret.fn = "var_es" /\ Len(call.paths) > 0) => ret.es <= ret.var

\* the values of the call's paths that are <= v, in sorted order
AtOrBelow(v) == SelectSeq(sorted(call.paths), LAMBDA x : x <= v)

\* C11: the Expected Shortfall returned by var_es is the mean of all path
\* values <= the returned VaR, every path that ties with the VaR included
\* (the mean being taken as var_es takes it, sum(...)/len(...)).
C11_EsIsMeanAtOrBelowVar ==
  (ret.fn = "var_es" /\ Len(call.paths) > 0)
    => ret.es = FlDiv(FlSum(AtOrBelow(ret.var)), Len(AtOrBelow(ret.var)))

\* C12: for a non-empty list of n paths and 0 < alpha <= 1 the returned VaR
\* is an element of the list and the number of paths <= VaR is >= alpha*n.
C12_VarIsAlphaQuantile ==
  (/\ ret.fn = "var_es"
   /\ Len(call.paths) > 0
   /\ RLt(Zero, call.alpha)
   /\ RLe(call.alpha, One))
    => /\ \E i \in 1..Len(call.paths) : call.paths[i] = ret.var
       /\ Len(AtOrBelow(ret.var)) * call.alpha[2] >= call.alpha[1] * Len(call.paths)

----------------------------------------------------------------------------
(* sliprisk/portfolio.py and stress/monte.py: build_corr_submatrix.  Leg ids *)
(* are numbered in lexicographic order; a correlation coefficient is an      *)
(* integer number of hundredths; the table read from corr_json is a function *)
(* whose domain holds the keys "a|b" it contains, written <<a, b>>.          *)

RhoMax == 95
RhoMin == -95

PairKeyUnsorted(x, y) == <<x, y>>

\* "|".join(sorted((x, y)))
PairKey(x, y) == IF y < x THEN <<y, x>> ELSE <<x, y>>

\* float(C.get(k, 0.0))
TableGet(C, k) == IF k \in DOMAIN C THEN C[k] ELSE 0

ClampRhoHighOnly(rho) == IF rho > RhoMax THEN RhoMax ELSE rho

\* if rho > 0.95: rho=0.95 ; if rho < -0.95: rho=-0.95
ClampRho(rho) ==
  LET hi == IF rho > RhoMax THEN RhoMax ELSE rho
  IN  IF hi < RhoMin THEN RhoMin ELSE hi

build_corr_submatrix(leg_keys, C) ==
  LET n == Len(leg_keys)
      rho(i, j) == ClampRho(TableGet(C, PairKey(leg_keys[i], leg_keys[j])))
  IN  [i \in 1..n |->
        [j \in 1..n |-> IF i = j THEN 100
                        ELSE IF i < j THEN rho(i, j) ELSE rho(j, i)]]

MaxKeys == 3

LegIds == 1..3
TableKeys == {<<1, 1>>, <<1, 2>>, <<1, 3>>, <<2, 3>>}
TableVals == {-120, 40, 99}
CorrTables == UNION {[K -> TableVals] : K \in SUBSET TableKeys}
KeyLists == UNION {[1..n -> LegIds] : n \in 0..MaxKeys}
CorrCalls == [fn : {"build_corr_submatrix"}, leg_keys : KeyLists, C : CorrTables]

InitCorr ==
  /\ call \in CorrCalls
  /\ ret = NoRet
  /\ rng = Idle
  /\ inv = Idle
  /\ sim = Idle

CallBuildCorrSubmatrix ==
  /\ call.fn = "build_corr_submatrix"
  /\ ret = NoRet
  /\ ret' = [fn |-> "build_corr_submatrix",
             R |-> build_corr_submatrix(call.leg_keys, call.C)]
  /\ UNCHANGED <<call, rng, inv, sim>>

NextCorr == CallBuildCorrSubmatrix

SpecCorr == InitCorr /\ [][NextCorr]_vars

\* the coefficient the table holds for the unordered pair {x, y}, 0 when it has none
PairValue(C, x, y) ==
  IF \E k \in DOMAIN C : {k[1], k[2]} = {x, y}
  THEN C[CHOOSE k \in DOMAIN C : {k[1], k[2]} = {x, y}]
  ELSE 0

\* C6: build_corr_submatrix returns an n x n matrix with diagonal 1.0 and
\* R[i][j] = R[j][i] = clamp(table value of the pair, -0.95, 0.95), 0 standing
\* for a pair the table does not hold.
C6_CorrMatrix ==
  ret.fn = "build_corr_submatrix" =>
    LET n == Len(call.leg_keys)
        R == ret.R
    IN  /\ DOMAIN R = 1..n
        /\ \A i \in 1..n :
             /\ DOMAIN R[i] = 1..n
             /\ R[i][i] = 100
             /\ \A j \in 1..n \ {i} :
                  LET v == PairValue(call.C, call.leg_keys[i], call.leg_keys[j])
                  IN  /\ R[i][j] = R[j][i]
                      /\ R[i][j] >= -95 /\ R[i][j] <= 95
                      /\ (v >= -95 /\ v <= 95) => R[i][j] = v
                      /\ v > 95 => R[i][j] = 95
                      /\ v < -95 => R[i][j] = -95

\* a matrix with an absent pair, a pair clamped from above and one clamped from below
C6_Witness ==
  /\ ret.fn = "build_corr_submatrix"
  /\ call.leg_keys = <<3, 1, 2>>
  /\ <<1, 3>> \notin DOMAIN call.C
  /\ <<1, 2>> \in DOMAIN call.C /\ call.C[<<1, 2>>] = -120
  /\ <<2, 3>> \in DOMAIN call.C /\ call.C[<<2, 3>>] = 99
  /\ ret.R[1][2] = 0 /\ ret.R[2][3] = -95 /\ ret.R[1][3] = 95

----------------------------------------------------------------------------
(* leggraph/copula.py: cholesky_psd.  Fixed point: an entry of A (and the    *)
(* running value s) is an integer number of units u*u, an entry of L an      *)
(* integer number of units u; sqrt and the division return the nearest       *)
(* representable value.  The pivot floor 1e-12 is the smallest positive      *)
(* value of s, one unit u*u, whose square root is one unit u.                *)

PivotEps == 1

RECURSIVE ISqrtFloor(_, _, _)
\* the r in lo..hi with r*r <= s < (r+1)*(r+1)
ISqrtFloor(s, lo, hi) ==
  IF lo >= hi THEN lo
  ELSE LET mid == (lo + hi + 1) \div 2
       IN  IF mid * mid <= s THEN ISqrtFloor(s, mid, hi)
           ELSE ISqrtFloor(s, lo, mid - 1)

\* math.sqrt(s) for s >= 0, to the nearest unit
Sqrt(s) ==
  LET r == ISqrtFloor(s, 0, IF s < 46340 THEN s ELSE 46340)
  IN  IF s - r * r > r THEN r + 1 ELSE r

\* a / b for b > 0, to the nearest unit, a tie going to the even one
DivNearest(a, b) ==
  LET q == a \div b
      r == a - q * b
  IN  IF 2 * r < b THEN q
      ELSE IF 2 * r > b THEN q + 1
      ELSE IF q % 2 = 0 THEN q ELSE q + 1

RECURSIVE DotPrefix(_, _, _)
\* sum of x[k]*y[k] for k in 1..m
DotPrefix(x, y, m) == IF m = 0 THEN 0 ELSE DotPrefix(x, y, m - 1) + x[m] * y[m]

PivotFloorNegativeOnly(s) == IF s < 0 THEN PivotEps ELSE s

\* if s<=1e-12: s=1e-12
PivotFloor(s) == IF s <= PivotEps THEN PivotEps ELSE s

CholCellNoInnerSum(A, st, i, j) ==
  LET L == st.L
      s == A[i][j]
  IN  IF st.raised # "none" THEN st
      ELSE IF i = j
      THEN LET sp == PivotFloor(s)
           IN  IF sp < 0 THEN [st EXCEPT !.raised = "ValueError"]
               ELSE [st EXCEPT !.L[i][j] = Sqrt(sp)]
      ELSE IF L[j][j] = 0 THEN [st EXCEPT !.raised = "ZeroDivisionError"]
           ELSE [st EXCEPT !.L[i][j] = DivNearest(s, L[j][j])]

\* the body of the inner loop for one (i, j); st = [L, raised]
CholCell(A, st, i, j) ==
  LET L == st.L
      s == A[i][j] - DotPrefix(L[i], L[j], j - 1)
  IN  IF st.raised # "none" THEN st
      ELSE IF i = j
      THEN LET sp == PivotFloor(s)
           IN  IF sp < 0 THEN [st EXCEPT !.raised = "ValueError"]
               ELSE [st EXCEPT !.L[i][j] = Sqrt(sp)]
      ELSE IF L[j][j] = 0 THEN [st EXCEPT !.raised = "ZeroDivisionError"]
           ELSE [st EXCEPT !.L[i][j] = DivNearest(s, L[j][j])]

RECURSIVE CholLoop(_, _, _, _)
\* for i in range(n): for j in range(i+1): ... from cell (i, j) on
CholLoop(A, st, i, j) ==
  IF i > Len(A) THEN st
  ELSE LET st2 == CholCell(A, st, i, j)
       IN  IF j < i THEN CholLoop(A, st2, i, j + 1)
           ELSE CholLoop(A, st2, i + 1, 1)

cholesky_psd(A) ==
  LET n == Len(A)
      L0 == [i \in 1..n |-> [j \in 1..n |-> 0]]
  IN  CholLoop(A, [L |-> L0, raised |-> "none"], 1, 1)

CholMaxDim == 3

\* entries in units u*u: a negative one, zero and a positive one
CholEntries == {-1, 0, 4}
LowerCells(n) == {c \in (1..n) \X (1..n) : c[2] <= c[1]}

\* a square matrix: any lower triangle with diagonal, the upper triangle either
\* its mirror image or filled with 4
CholMatrix(n, low, sym) ==
  [i \in 1..n |-> [j \in 1..n |->
     IF j <= i THEN low[<<i, j>>]
     ELSE IF sym THEN low[<<j, i>>] ELSE 4]]

InitChol ==
  /\ \E n \in 1..CholMaxDim :
       \E low \in [LowerCells(n) -> CholEntries], sym \in BOOLEAN :
         call = [fn |-> "cholesky_psd", A |-> CholMatrix(n, low, sym)]
  /\ ret = NoRet
  /\ rng = Idle
  /\ inv = Idle
  /\ sim = Idle

CallCholeskyPsd ==
  /\ call.fn = "cholesky_psd"
  /\ ret = NoRet
  /\ ret' = [fn |-> "cholesky_psd", L |-> cholesky_psd(call.A).L,
             raised |-> cholesky_psd(call.A).raised]
  /\ UNCHANGED <<call, rng, inv, sim>>

NextChol == CallCholeskyPsd

SpecChol == InitChol /\ [][NextChol]_vars

\* C10: cholesky_psd never fails on a square matrix, positive semi-definite or
\* not: every diagonal entry of L is strictly positive (a pivot <= 1e-12 is
\* replaced by 1e-12 before the square root, so no division is by zero) and
\* every entry above the diagonal of L is 0.
C10_CholeskyTotal ==
  ret.fn = "cholesky_psd" =>
    LET n == Len(call.A)
    IN  /\ ret.raised = "none"
        /\ \A i \in 1..n :
             /\ ret.L[i][i] > 0
             /\ \A j \in (i + 1)..n : ret.L[i][j] = 0

\* a matrix that is not positive semi-definite: a zero pivot in row 1, a
\* negative one in row 2, and an off-diagonal entry divided by a floored pivot
C10_Witness ==
  /\ ret.fn = "cholesky_psd"
  /\ Len(call.A) = 3
  /\ call.A[1][1] = 0
  /\ call.A[2][1] = 4
  /\ call.A[2][2] = -1
  /\ call.A[3][2] = 4
  /\ ret.L[1][1] = 1 /\ ret.L[2][1] = 4 /\ ret.L[2][2] = 1

----------------------------------------------------------------------------
(* leggraph/copula.py: cholesky_psd on correlation matrices.  The matrices   *)
(* have unit diagonal and off-diagonal coefficients that are multiples of    *)
(* 1/20; they are passed in fixed point with 1.0 = CorrOne units u*u, so     *)
(* that L is in units u = 1/1000 and every entry of L carries a rounding     *)
(* error of at most u/2 (the float arithmetic of the code: 2^-53 relative).  *)

CorrOne == 1000 * 1000
Twentieth == CorrOne \div 20
\* the coefficients of the matrices, in twentieths: -0.95, -0.5, 0, 0.3, 0.6, 0.95
RhoTwentieths == {-19, -10, 0, 6, 12, 19}

\* the matrix without row 1 and column c
Minor(M, c) ==
  [i \in 1..(Len(M) - 1) |-> [j \in 1..(Len(M) - 1) |->
     M[i + 1][IF j < c THEN j ELSE j + 1]]]

RECURSIVE Det(_)
\* determinant, by expansion along the first row
Det(M) ==
  IF Len(M) = 0 THEN 1
  ELSE IF Len(M) = 1 THEN M[1][1]
  ELSE LET term(c) == (IF c % 2 = 1 THEN 1 ELSE -1) * M[1][c] * Det(Minor(M, c))
           sum[c \in 0..Len(M)] == IF c = 0 THEN 0 ELSE sum[c - 1] + term(c)
       IN  sum[Len(M)]

Leading(M, k) == [i \in 1..k |-> [j \in 1..k |-> M[i][j]]]

\* a valid correlation matrix: symmetric, unit diagonal, coefficients within
\* [-0.95, 0.95], positive definite (every leading minor positive)
IsValidCorr(A) ==
  LET n == Len(A)
      M == [i \in 1..n |-> [j \in 1..n |-> A[i][j] \div Twentieth]]
  IN  /\ \A i \in 1..n : A[i][i] = CorrOne
      /\ \A i, j \in 1..n : A[i][j] = A[j][i]
      /\ \A i, j \in 1..n : i # j => (A[i][j] >= -19 * Twentieth /\ A[i][j] <= 19 * Twentieth)
      /\ \A k \in 1..n : Det(Leading(M, k)) > 0

UpperCells(n) == {c \in (1..n) \X (1..n) : c[1] < c[2]}

CorrMatrix(n, up) ==
  [i \in 1..n |-> [j \in 1..n |->
     IF i = j THEN CorrOne
     ELSE IF i < j THEN up[<<i, j>>] * Twentieth
     ELSE up[<<j, i>>] * Twentieth]]

\* the valid matrices among those joint_binary_samples hands over (R after
\* its clamp loop)
InitCholCorr ==
  /\ \E n \in 1..CholMaxDim :
       \E up \in [UpperCells(n) -> RhoTwentieths] :
         /\ IsValidCorr(CorrMatrix(n, up))
         /\ call = [fn |-> "cholesky_psd", A |-> CorrMatrix(n, up)]
  /\ ret = NoRet
  /\ rng = Idle
  /\ inv = Idle
  /\ sim = Idle

SpecCholCorr == InitCholCorr /\ [][NextChol]_vars

\* entry (i, j) of L * L-transposed
LLt(L, i, j) == DotPrefix(L[i], L[j], Len(L))

\* the tolerance of the comparison: the rounding of one entry of L (u/2) times
\* twice the largest entry of L (1000 u), for each of the n terms of an entry
CholTol(n) == n * 1000

----------------------------------------------------------------------------
(* leggraph/copula.py: phi_inv and joint_binary_samples.  A probability is   *)
(* an integer number of thousandths, a correlation an integer number of      *)
(* hundredths (one unit u*u of cholesky_psd, so L is in tenths), a standard  *)
(* normal draw an integer number of tenths, z and the thresholds integer     *)
(* numbers of hundredths.                                                    *)

\* the rational approximations of phi_inv, evaluated by the source on the
\* probabilities of the model and rounded to hundredths
PhiInvLowTail(p) ==
  CASE p = 1 -> -1166 [] p = 5 -> -855 [] p = 10 -> -722 [] p = 20 -> -590
PhiInvHighTail(p) ==
  CASE p = 980 -> 590 [] p = 990 -> 722 [] p = 995 -> 855 [] p = 999 -> 1166
PhiInvCentral(p) ==
  CASE p = 300 -> -52 [] p = 500 -> 0 [] p = 700 -> 52

phi_inv(p) ==
  IF p <= 0 THEN -1000
  ELSE IF p >= 1000 THEN 1000
  ELSE IF 100 * p < 2425 THEN PhiInvLowTail(p)
  ELSE IF 100 * p > 97575 THEN PhiInvHighTail(p)
  ELSE PhiInvCentral(p)

\* The process-wide generator of the random module: the state of the
\* generator and the second value gauss() keeps for its next call (<<>> when
\* it keeps none).
RngMod == 8
ZVals == <<-15, -5, 0, 5, 15>>

RngAdvance(state) == (5 * state + 3) % RngMod

RandomSeedKeepsState(r, seed) == r

\* random.seed(seed)
RandomSeed(r, seed) == [state |-> seed % RngMod, gauss_next |-> <<>>]

\* random.random(): the generator moves on, gauss_next stays
RandomRandom(r) == [r EXCEPT !.state = RngAdvance(r.state)]

\* random.gauss(0, 1): the kept value if there is one, else two uniform draws
\* give the value returned and the value kept
RandomGauss(r) ==
  IF r.gauss_next # <<>>
  THEN [z |-> r.gauss_next[1], rng |-> [r EXCEPT !.gauss_next = <<>>]]
  ELSE LET u1 == r.state
           u2 == RngAdvance(u1)
       IN  [z |-> ZVals[((u1 + 2 * u2) % Len(ZVals)) + 1],
            rng |-> [state |-> RngAdvance(u2),
                     gauss_next |-> <<ZVals[((2 * u1 + u2) % Len(ZVals)) + 1]>>]]

\* max(-0.95, min(0.95, x))
ClampCorr(x) ==
  LET lo == IF x < RhoMax THEN x ELSE RhoMax
  IN  IF lo > RhoMin THEN lo ELSE RhoMin

\* the first loop of joint_binary_samples, which writes into the caller's R
ClampInPlace(R, n) ==
  [i \in DOMAIN R |-> [j \in DOMAIN R[i] |->
     IF i > n \/ j > n THEN R[i][j]
     ELSE IF i = j THEN 100
     ELSE IF i < j THEN ClampCorr(R[i][j])
     ELSE ClampCorr(R[j][i])]]

\* [1 if z[i]<=thr[i] else 0 for i in range(n)], z = L * z0
OutcomeRow(L, z0, thr) ==
  [i \in 1..Len(thr) |-> IF DotPrefix(L[i], z0, i) <= thr[i] THEN 1 ELSE 0]

MaxN == 2
MaxSamples == 2

MargVals == {0, 5, 300, 1000}
Seeds == {7, 42}
\* caller matrices: off-diagonal v above and w below the diagonal, diagonal d
CorrInput(n, v, w, d) ==
  [i \in 1..n |-> [j \in 1..n |-> IF i = j THEN d ELSE IF i < j THEN v ELSE w]]

NewInvocation(marginals, R, samples, seed) ==
  [pc |-> "start", marginals |-> marginals, R |-> R, R_in |-> R,
   samples |-> samples, seed |-> seed, state_at_call |-> 0,
   L |-> <<>>, thr |-> <<>>, z0 |-> <<>>, outs |-> <<>>]

RngStates == [state : 0..(RngMod - 1), gauss_next : {<<>>, <<5>>}]

\* two calls with equal arguments (each caller passes its own copy of R)
InitCopula ==
  /\ call = Idle
  /\ ret = Idle
  /\ sim = Idle
  /\ rng \in RngStates
  /\ \E n \in 1..MaxN :
       \E marginals \in [1..n -> MargVals], v \in {-120, 30}, sym \in BOOLEAN,
          d \in {100, 250}, samples \in 1..MaxSamples, seed \in Seeds :
         inv = [k \in 1..2 |->
                  NewInvocation(marginals, CorrInput(n, v, IF sym THEN v ELSE 0, d),
                                samples, seed)]

Running(k) == inv[k].pc \notin {"start", "done"}

\* clamp loop and factorisation
Begin(k) ==
  /\ inv[k].pc = "start"
  /\ LET n == Len(inv[k].marginals)
         R2 == ClampInPlace(inv[k].R, n)
     IN  inv' = [inv EXCEPT ![k].R = R2,
                            ![k].L = cholesky_psd(R2).L,
                            ![k].state_at_call = rng.state,
                            ![k].pc = "seed"]
  /\ UNCHANGED <<call, ret, rng, sim>>

\* random.seed(seed); thr=[phi_inv(p) for p in marginals]
Seed(k) ==
  /\ inv[k].pc = "seed"
  /\ rng' = RandomSeed(rng, inv[k].seed)
  /\ inv' = [inv EXCEPT
               ![k].thr = [i \in 1..Len(inv[k].marginals) |-> phi_inv(inv[k].marginals[i])],
               ![k].pc = "draw"]
  /\ UNCHANGED <<call, ret, sim>>

\* one random.gauss(0,1) of z0; the draw that completes z0 also appends the row
Draw(k) ==
  /\ inv[k].pc = "draw"
  /\ LET g == RandomGauss(rng)
         z0 == Append(inv[k].z0, g.z)
         full == Len(z0) = Len(inv[k].marginals)
         outs == IF full THEN Append(inv[k].outs, OutcomeRow(inv[k].L, z0, inv[k].thr))
                 ELSE inv[k].outs
     IN  /\ rng' = g.rng
         /\ inv' = [inv EXCEPT
                      ![k].z0 = IF full THEN <<>> ELSE z0,
                      ![k].outs = outs,
                      ![k].pc = IF Len(outs) = inv[k].samples THEN "done" ELSE "draw"]
  /\ UNCHANGED <<call, ret, sim>>

\* other code of the process draws from the same generator, before a call and
\* between two calls
ForeignRandom ==
  /\ \A k \in 1..2 : ~Running(k)
  /\ \E k \in 1..2 : inv[k].pc = "start"
  /\ rng' = RandomRandom(rng)
  /\ UNCHANGED <<call, ret, inv, sim>>

ForeignGauss ==
  /\ \A k \in 1..2 : ~Running(k)
  /\ \E k \in 1..2 : inv[k].pc = "start"
  /\ rng' = RandomGauss(rng).rng
  /\ UNCHANGED <<call, ret, inv, sim>>

\* the calls run one after the other: the first, then the second
BeginInOrder(k) ==
  /\ \A j \in 1..(k - 1) : inv[j].pc = "done"
  /\ Begin(k)

NextCopula ==
  \/ \E k \in 1..2 : BeginInOrder(k)
  \/ \E k \in 1..2 : Seed(k)
  \/ \E k \in 1..2 : Draw(k)
  \/ ForeignRandom
  \/ ForeignGauss

SpecCopula == InitCopula /\ [][NextCopula]_vars

\* C4: two calls of joint_binary_samples with equal marginals, correlation
\* matrix, sample count and seed return identical outcome matrices, whatever
\* the state of the process-wide generator before each call.
C4_SeedDeterminism ==
  (inv[1].pc = "done" /\ inv[2].pc = "done") => inv[1].outs = inv[2].outs

\* both calls returned, the generator was in different states when they were
\* made, and the samples hold wins as well as losses
C4_Witness ==
  /\ inv[1].pc = "done" /\ inv[2].pc = "done"
  /\ inv[1].state_at_call # inv[2].state_at_call
  /\ inv[1].samples = 2
  /\ inv[1].outs[1] # inv[1].outs[2]

\* C9: every marginal is clamped into (0.01, 0.99) before phi_inv turns it into
\* a threshold: a marginal below 0.01 gives the threshold of 0.01, one above
\* 0.99 the threshold of 0.99, and no threshold lies outside these two.
C9_MarginalsClamped ==
  \A k \in 1..2 :
    inv[k].pc \in {"draw", "done"} =>
      \A i \in 1..Len(inv[k].marginals) :
        /\ inv[k].thr[i] >= phi_inv(10)
        /\ inv[k].thr[i] <= phi_inv(990)
        /\ inv[k].marginals[i] < 10 => inv[k].thr[i] = phi_inv(10)
        /\ inv[k].marginals[i] > 990 => inv[k].thr[i] = phi_inv(990)

\* C19: joint_binary_samples treats its inputs as read-only: the caller's
\* correlation matrix holds after the call the values it held before it,
\* whatever the matrix was (the marginals list is only ever read).
C19_InputsReadOnly ==
  \A k \in 1..2 : inv[k].pc # "start" => inv[k].R = inv[k].R_in

----------------------------------------------------------------------------
(* leggraph/copula.py: two invocations of joint_binary_samples interleaved   *)
(* in one process (threads): seeding and each random.gauss are atomic steps  *)
(* on the one generator of the random module.                                *)

\* two threads call with the same marginals and matrix, each with a seed of
\* its own choice and its own copy of R
InitInterleaved ==
  /\ call = Idle
  /\ ret = Idle
  /\ sim = Idle
  /\ rng = [state |-> 0, gauss_next |-> <<>>]
  /\ \E n \in 1..MaxN :
       \E marginals \in [1..n -> {300, 700}], samples \in 1..MaxSamples,
          seeds \in [1..2 -> Seeds] :
         inv = [k \in 1..2 |->
                  NewInvocation(marginals, CorrInput(n, 30, 30, 100), samples, seeds[k])]

NextInterleaved ==
  \/ \E k \in 1..2 : Begin(k)
  \/ \E k \in 1..2 : Seed(k)
  \/ \E k \in 1..2 : Draw(k)

SpecInterleaved == InitInterleaved /\ [][NextInterleaved]_vars

RECURSIVE GaussSeq(_, _)
\* the next m values of random.gauss(0,1) from generator r, nothing in between
GaussSeq(r, m) ==
  IF m = 0 THEN <<>>
  ELSE LET g == RandomGauss(r) IN <<g.z>> \o GaussSeq(g.rng, m - 1)

\* the samples invocation iv returns when it runs alone
AloneOuts(iv) ==
  LET n == Len(iv.marginals)
      L == cholesky_psd(ClampInPlace(iv.R_in, n)).L
      thr == [i \in 1..n |-> phi_inv(iv.marginals[i])]
      zs == GaussSeq(RandomSeed(rng, iv.seed), n * iv.samples)
  IN  [s \in 1..iv.samples |-> OutcomeRow(L, SubSeq(zs, (s - 1) * n + 1, s * n), thr)]

\* C20: every draw of joint_binary_samples comes from generator state that
\* only its own seed determines, so an invocation that runs interleaved with
\* another one returns exactly the samples it returns when run alone.
C20_InterleavedAlone ==
  \A k \in 1..2 : inv[k].pc = "done" => inv[k].outs = AloneOuts(inv[k])

----------------------------------------------------------------------------
(* stress/monte.py: slip_pnl and simulate.  legmap maps the known leg ids to *)
(* their American price; a slip is [slip_id, legs, stake]; P&L values are    *)
(* exact rationals.                                                          *)

RECURSIVE UniqueIdsFrom(_, _, _)
\* lines 34-40: the known leg ids in order of first appearance in the slips
UniqueIdsFrom(lids, legmap, acc) ==
  IF lids = <<>> THEN acc
  ELSE LET lid == Head(lids)
           seen == \E i \in 1..Len(acc) : acc[i] = lid
       IN  UniqueIdsFrom(Tail(lids), legmap,
                         IF ~seen /\ lid \in DOMAIN legmap THEN Append(acc, lid) ELSE acc)

RECURSIVE AllLegIds(_)
AllLegIds(slips) == IF slips = <<>> THEN <<>> ELSE Head(slips).legs \o AllLegIds(Tail(slips))

UniqueIds(slips, legmap) == UniqueIdsFrom(AllLegIds(slips), legmap, <<>>)

\* id_to_idx[lid], counted from 1
IdToIdx(unique_ids, lid) == CHOOSE i \in 1..Len(unique_ids) : unique_ids[i] = lid

\* [legmap[lid] for lid in s['legs'] if lid in legmap]
SlipLegs(s, legmap) ==
  LET known == SelectSeq(s.legs, LAMBDA lid : lid \in DOMAIN legmap)
  IN  [i \in 1..Len(known) |-> legmap[known[i]]]

\* [row[i] for i in idxs], idxs = [id_to_idx[lid] for lid in s['legs'] if lid in id_to_idx]
SlipOutcomes(s, unique_ids, row) ==
  LET inidx == SelectSeq(s.legs, LAMBDA lid : \E i \in 1..Len(unique_ids) : unique_ids[i] = lid)
  IN  [i \in 1..Len(inidx) |-> row[IdToIdx(unique_ids, inidx[i])]]

slip_pnl_any_leg(legs, stake, outcomes_row) ==
  LET all_win == \E i \in 1..Len(legs) : outcomes_row[i] = 1
  IN  IF ~all_win THEN RSub(Zero, stake)
      ELSE RMul(stake, RSub(slip_decimal_payout(legs), One))

\* slip_pnl; legs is the sequence of the prices of the legs
slip_pnl(legs, stake, outcomes_row) ==
  LET all_win == \A i \in 1..Len(legs) : outcomes_row[i] = 1
  IN  IF ~all_win THEN RSub(Zero, stake)
      ELSE LET dec == slip_decimal_payout(legs)
           IN  IF ~IsNum(dec) THEN ZeroDivisionError
               ELSE RMul(stake, RSub(dec, One))

SlipStepAnyWin(s, legmap, unique_ids, row) ==
  LET legs == SlipLegs(s, legmap)
  IN  IF Len(legs) = 0 THEN [skipped |-> TRUE, p |-> Zero, won |-> FALSE]
      ELSE LET slip_outcomes == SlipOutcomes(s, unique_ids, row)
           IN  [skipped |-> FALSE,
                p |-> slip_pnl(legs, s.stake, slip_outcomes),
                won |-> \E i \in 1..Len(slip_outcomes) : slip_outcomes[i] # 0]

\* lines 51-61 for one slip: skipped when it has no known leg, else its P&L p
\* and whether all(slip_outcomes)
SlipStep(s, legmap, unique_ids, row) ==
  LET legs == SlipLegs(s, legmap)
  IN  IF Len(legs) = 0 THEN [skipped |-> TRUE, p |-> Zero, won |-> FALSE]
      ELSE LET slip_outcomes == SlipOutcomes(s, unique_ids, row)
           IN  [skipped |-> FALSE,
                p |-> slip_pnl(legs, s.stake, slip_outcomes),
                won |-> \A i \in 1..Len(slip_outcomes) : slip_outcomes[i] # 0]

RECURSIVE RSumFront(_, _)
\* pnl = 0.0; pnl += p for the first m items
RSumFront(seq, m) == IF m = 0 THEN Zero ELSE RAdd(RSumFront(seq, m - 1), seq[m])

\* lines 48-62 for one row: the path P&L, the counters, each slip's P&L; raised
\* when slip_pnl raised
PathLoop(slips, legmap, unique_ids, row, per_slip) ==
  LET Result(steps) ==
        LET counted(id, w) == Cardinality({k \in 1..Len(slips) :
                                slips[k].slip_id = id /\ ~steps[k].skipped /\ steps[k].won = w})
        IN  [raised |-> \E k \in 1..Len(slips) : ~IsNum(steps[k].p),
             contrib |-> [k \in 1..Len(slips) |-> steps[k].p],
             pnl |-> RSumFront([k \in 1..Len(slips) |-> steps[k].p], Len(slips)),
             per_slip |-> [id \in DOMAIN per_slip |->
                             [wins |-> per_slip[id].wins + counted(id, TRUE),
                              losses |-> per_slip[id].losses + counted(id, FALSE)]]]
  IN  CHOOSE res \in {Result(st) : st \in {[k \in 1..Len(slips) |->
                         SlipStep(slips[k], legmap, unique_ids, row)]}} : TRUE

RECURSIVE RSum(_)
RSum(seq) == IF seq = <<>> THEN Zero ELSE RAdd(Head(seq), RSum(Tail(seq)))

MaxSlips == 2
MaxSims == 2

SimLegIds == 1..3
\* the price of each leg in outputs/bestlines.json
SimPrice(lid) == CASE lid = 1 -> -200 [] lid = 2 -> 100 [] lid = 3 -> 250
SimLegLists == {<<>>, <<1>>, <<1, 2>>, <<3, 1>>, <<2, 2>>}
\* the sets of leg ids that have a record in the leg map
SimKnownSets == {{}, {1}, {1, 3}, {1, 2, 3}}
SimStakes == {Q(4, 1), Q(10, 1)}
\* the rows joint_samples can return for n legs
OutcomeRows(n) == [1..n -> {0, 1}]

InitSim ==
  /\ call = Idle
  /\ ret = Idle
  /\ rng = Idle
  /\ inv = Idle
  /\ \E m \in 1..MaxSlips, known \in SimKnownSets, sims \in 1..MaxSims,
        same_id \in BOOLEAN :
       \E legs \in [1..m -> SimLegLists], stakes \in [1..m -> SimStakes] :
         sim = [pc |-> "setup",
                slips |-> [k \in 1..m |-> [slip_id |-> IF same_id THEN 1 ELSE k,
                                           legs |-> legs[k], stake |-> stakes[k]]],
                legmap |-> [lid \in known |-> SimPrice(lid)],
                sims |-> sims, unique_ids |-> <<>>, rows |-> <<>>, path_pnl |-> <<>>,
                contribs |-> <<>>, per_slip |-> <<>>, raised |-> FALSE,
                mean |-> Zero, variance |-> Zero]

\* lines 33-46: the index of the legs, the sample set, the per-slip counters
SimSetup ==
  /\ sim.pc = "setup"
  /\ sim' = [sim EXCEPT
               !.unique_ids = UniqueIds(sim.slips, sim.legmap),
               !.per_slip = [id \in {sim.slips[k].slip_id : k \in 1..Len(sim.slips)} |->
                               [wins |-> 0, losses |-> 0]],
               !.pc = "paths"]
  /\ UNCHANGED <<call, ret, rng, inv>>

\* lines 47-62: one path r of the loop, on the row outcomes[r]
SimPath ==
  /\ sim.pc = "paths"
  /\ Len(sim.path_pnl) < sim.sims
  /\ \E row \in OutcomeRows(Len(sim.unique_ids)) :
       \E acc \in {PathLoop(sim.slips, sim.legmap, sim.unique_ids, row, sim.per_slip)} :
           sim' = IF acc.raised THEN [sim EXCEPT !.raised = TRUE, !.pc = "done"]
                  ELSE [sim EXCEPT !.rows = Append(@, row),
                                   !.path_pnl = Append(@, acc.pnl),
                                   !.contribs = Append(@, acc.contrib),
                                   !.per_slip = acc.per_slip]
  /\ UNCHANGED <<call, ret, rng, inv>>

\* lines 63-68: mean and (squared) standard deviation of the paths
SimStats ==
  /\ sim.pc = "paths"
  /\ Len(sim.path_pnl) = sim.sims
  /\ LET n == Len(sim.path_pnl)
         mean == RDiv(RSum(sim.path_pnl), Q(n, 1))
         sq == [r \in 1..n |-> RMul(RSub(sim.path_pnl[r], mean), RSub(sim.path_pnl[r], mean))]
     IN  sim' = [sim EXCEPT !.mean = mean,
                            !.variance = RDiv(RSum(sq), Q(n, 1)),
                            !.pc = "done"]
  /\ UNCHANGED <<call, ret, rng, inv>>

NextSim == SimSetup \/ SimPath \/ SimStats

SpecSim == InitSim /\ [][NextSim]_vars

\* the column of the shared outcome row that holds leg lid
ColumnOf(lid) == CHOOSE i \in 1..Len(sim.unique_ids) : sim.unique_ids[i] = lid
\* the legs of slip s that have a record, as a set
KnownOf(s) == {s.legs[i] : i \in 1..Len(s.legs)} \cap DOMAIN sim.legmap
\* the combined decimal payout of the known legs of slip s, one factor per occurrence
PayoutOf(s) == slip_decimal_payout(SlipLegs(s, sim.legmap))

\* what slip s contributes on a row according to C5
ClaimedPnl(s, row) ==
  IF \A lid \in KnownOf(s) : row[ColumnOf(lid)] = 1
  THEN RMul(s.stake, RSub(PayoutOf(s), One))
  ELSE RSub(Zero, s.stake)

\* C5: for every path the portfolio P&L is the sum over slips of stake*(D-1)
\* if all of the slip's legs are 1 in the path's shared outcome row and
\* -stake otherwise; a leg is read from the same column for every slip, so a
\* leg that is 0 in a path makes every slip containing it contribute -stake.
C5_PathPnl ==
  \A r \in 1..Len(sim.path_pnl) :
    /\ sim.path_pnl[r] =
         RSum([k \in 1..Len(sim.slips) |-> ClaimedPnl(sim.slips[k], sim.rows[r])])
    /\ \A k \in 1..Len(sim.slips) :
         \A lid \in KnownOf(sim.slips[k]) :
           sim.rows[r][ColumnOf(lid)] = 0 =>
             sim.contribs[r][k] = RSub(Zero, sim.slips[k].stake)

\* two slips share leg 1, which the outcome rows hold in their second column;
\* in one path the shared leg loses, in the other both slips win
C5_Witness ==
  /\ Len(sim.path_pnl) = 2
  /\ Len(sim.slips) = 2
  /\ sim.slips[1].legs = <<3, 1>>
  /\ sim.slips[2].legs = <<1, 2>>
  /\ DOMAIN sim.legmap = SimLegIds
  /\ sim.rows[1] = <<1, 0, 1>>
  /\ sim.rows[2] = <<1, 1, 1>>
  /\ RLt(sim.path_pnl[1], Zero)
  /\ RLt(Zero, sim.path_pnl[2])

\* slip k is the only slip of the run with its slip_id
UniqueSlipId(k) == \A m \in 1..Len(sim.slips) : sim.slips[m].slip_id = sim.slips[k].slip_id => m = k
\* the processed paths whose row has every known leg of slip s at 1
WinningPaths(s) ==
  {r \in 1..Len(sim.path_pnl) : \A lid \in KnownOf(s) : sim.rows[r][ColumnOf(lid)] = 1}

BadSlip(s) ==
  \/ \E i \in 1..Len(s.legs) : s.legs[i] \notin DOMAIN sim.legmap
  \/ Len(SlipLegs(s, sim.legmap)) < 2

\* C26: a slip that references a leg id with no record, or that is left with
\* fewer than 2 known legs, is skipped by simulate: it contributes 0 to every
\* path and receives no win/loss counts.
C26_BadSlipContributesNothing ==
  (sim.pc \in {"paths", "done"} /\ ~sim.raised) =>
    \A k \in 1..Len(sim.slips) :
      BadSlip(sim.slips[k]) =>
        /\ \A r \in 1..Len(sim.path_pnl) : sim.contribs[r][k] = Zero
        /\ UniqueSlipId(k) =>
             sim.per_slip[sim.slips[k].slip_id] = [wins |-> 0, losses |-> 0]

\* C16: simulate surfaces a hard failure to its caller when the leg list of
\* the whole run is empty (no slip references a known leg), instead of
\* going on to a P&L distribution and its statistics.
C16_EmptyLegListFails ==
  (sim.pc \in {"paths", "done"} /\ sim.unique_ids = <<>>) => sim.raised

----------------------------------------------------------------------------
(* scripts/stress_run.py: the spray throttle that main derives from the VaR. *)
(* VaR, bankroll and the three configured factors are exact rationals.       *)

RAbs(x) == <<Abs(x[1]), x[2]>>

\* var_ratio = abs(min(VaR, 0)) / bankroll
var_ratio(VaR, bankroll) == RDiv(RAbs(RMin2(VaR, Zero)), bankroll)

spray_throttle_no_offset(VaR, bankroll, spray_var_limit, spray_min_factor, spray_max_factor) ==
  IF ~RLt(Zero, bankroll) THEN One
  ELSE IF ~RLt(spray_var_limit, var_ratio(VaR, bankroll)) THEN One
  ELSE LET over == RMin2(Q(2, 1), RDiv(var_ratio(VaR, bankroll), spray_var_limit))
       IN  RMax2(spray_min_factor,
                 RSub(spray_max_factor,
                      RMul(over, RSub(spray_max_factor, spray_min_factor))))

spray_throttle(VaR, bankroll, spray_var_limit, spray_min_factor, spray_max_factor) ==
  IF ~RLt(Zero, bankroll) THEN One
  ELSE IF ~RLt(spray_var_limit, var_ratio(VaR, bankroll)) THEN One
  ELSE LET over == RMin2(Q(2, 1), RDiv(var_ratio(VaR, bankroll), spray_var_limit))
       IN  RMax2(spray_min_factor,
                 RSub(spray_max_factor,
                      RMul(RSub(over, One), RSub(spray_max_factor, spray_min_factor))))

\* inputs: the VaR of a run, the --bankroll argument and stress.yaml
ThrottleVaRs == {Q(-600, 1), Q(-60, 1), Q(-45, 1), Q(-36, 1), Q(-30, 1), Q(-20, 1), Zero, Q(10, 1)}
ThrottleBankrolls == {Zero, Q(600, 1), Q(1000, 1)}
SprayVarLimits == {Q(3, 100), Q(1, 20)}
SprayMinFactors == {Q(3, 10), Q(1, 2)}
SprayMaxFactors == {Q(4, 5), One}

ThrottleCalls ==
  [fn : {"spray_throttle"}, VaR : ThrottleVaRs, bankroll : ThrottleBankrolls,
   spray_var_limit : SprayVarLimits, spray_min_factor : SprayMinFactors,
   spray_max_factor : SprayMaxFactors]

InitThrottle ==
  /\ call \in ThrottleCalls
  /\ ret = NoRet
  /\ rng = Idle
  /\ inv = Idle
  /\ sim = Idle

CallSprayThrottle ==
  /\ call.fn = "spray_throttle"
  /\ ret = NoRet
  /\ ret' = [fn |-> "spray_throttle",
             throttle |-> spray_throttle(call.VaR, call.bankroll, call.spray_var_limit,
                                         call.spray_min_factor, call.spray_max_factor)]
  /\ UNCHANGED <<call, rng, inv, sim>>

NextThrottle == CallSprayThrottle

SpecThrottle == InitThrottle /\ [][NextThrottle]_vars

\* the breach ratio r of the call and whether it exceeds the configured limit
BreachRatio == var_ratio(call.VaR, call.bankroll)
Breached ==
  /\ ret.fn = "spray_throttle"
  /\ RLt(Zero, call.bankroll)
  /\ RLt(call.spray_var_limit, BreachRatio)

\* the straight line through (limit, max factor) and (2*limit, min factor), at r
ThrottleLine ==
  RSub(call.spray_max_factor,
       RMul(RDiv(RSub(BreachRatio, call.spray_var_limit), call.spray_var_limit),
            RSub(call.spray_max_factor, call.spray_min_factor)))

\* C13: when r = |min(VaR,0)|/bankroll exceeds spray_var_limit the throttle
\* lies on the line that falls from spray_max_factor at r = limit to
\* spray_min_factor at r = 2*limit, and it equals spray_min_factor for every
\* r >= 2*limit.
C13_ThrottleLinear ==
  Breached =>
    IF RLe(RMul(Q(2, 1), call.spray_var_limit), BreachRatio)
    THEN ret.throttle = call.spray_min_factor
    ELSE /\ ret.throttle = ThrottleLine
         /\ RLt(call.spray_min_factor, ret.throttle)
         /\ RLt(ret.throttle, call.spray_max_factor)

\* a breach of 1.2 times the limit puts the throttle 20% of the way down
C13_Witness ==
  /\ Breached
  /\ BreachRatio = Q(3, 50)
  /\ call.spray_var_limit = Q(1, 20)
  /\ call.spray_min_factor = Q(1, 2)
  /\ call.spray_max_factor = One
  /\ ret.throttle = Q(9, 10)

\* C28: for spray_min_factor <= spray_max_factor the throttle lies in
\* [spray_min_factor, spray_max_factor]; it equals spray_max_factor whenever
\* the breach ratio does not exceed the limit, VaR >= 0 or bankroll <= 0.
C28_ThrottleInRange ==
  (ret.fn = "spray_throttle" /\ RLe(call.spray_min_factor, call.spray_max_factor)) =>
    /\ RLe(call.spray_min_factor, ret.throttle)
    /\ RLe(ret.throttle, call.spray_max_factor)
    /\ ~Breached => ret.throttle = call.spray_max_factor

----------------------------------------------------------------------------
(* bankroll/rsi.py: cap_by_rsi, and the tier lookup of apply_caps.  caps     *)
(* maps a tier name to its record; a tier whose record is NoTier has no      *)
(* entry, a cap that is Missing is a key absent from the tier's mapping.     *)

KeyError == [fn |-> "cap_by_rsi", raised |-> TRUE, unit_mult |-> Missing, br_frac |-> Missing]

HasEntry(caps, rsi_level) == rsi_level \in DOMAIN caps /\ caps[rsi_level].present

\* caps.get(rsi_level, caps['medium']): the default is evaluated before the lookup
cap_by_rsi(unit_mult, br_frac, rsi_level, caps) ==
  IF ~HasEntry(caps, "medium") THEN KeyError
  ELSE LET c == IF HasEntry(caps, rsi_level) THEN caps[rsi_level] ELSE caps["medium"]
       IN  IF ~IsNum(c.unit_cap) \/ ~IsNum(c.br_cap) THEN KeyError
           ELSE [fn |-> "cap_by_rsi", raised |-> FALSE,
                 unit_mult |-> RMin2(unit_mult, c.unit_cap),
                 br_frac |-> RMin2(br_frac, c.br_cap)]

\* the requested tiers: the configured names and one no file mentions
RsiLevels == Tiers \cup {"extreme"}
UnitMults == {Q(1, 2), One}
BrFracs == {Q(1, 100), Q(1, 4)}
CapFractions == {Q(1, 100), Q(1, 10)}

CapCalls ==
  [fn : {"cap_by_rsi"}, unit_mult : UnitMults, br_frac : BrFracs,
   rsi_level : RsiLevels, caps : {pol.rsi_caps : pol \in Policies}]
  \cup
  [fn : {"apply_caps"}, f : CapFractions, bankroll : {Q(1000, 1)}, unit : {Q(10, 1)},
   rsi_level : RsiLevels, cfg : Policies]

InitCaps ==
  /\ call \in CapCalls
  /\ ret = NoRet
  /\ rng = Idle
  /\ inv = Idle
  /\ sim = Idle

CallCapByRsi ==
  /\ call.fn = "cap_by_rsi"
  /\ ret = NoRet
  /\ ret' = cap_by_rsi(call.unit_mult, call.br_frac, call.rsi_level, call.caps)
  /\ UNCHANGED <<call, rng, inv, sim>>

\* apply_caps: rsi is the tier record its lookup selected, val its return value
CallApplyCaps ==
  /\ call.fn = "apply_caps"
  /\ ret = NoRet
  /\ ret' = [fn |-> "apply_caps", raised |-> FALSE,
             rsi |-> TierOf(call.cfg, call.rsi_level),
             val |-> apply_caps(call.f, call.bankroll, call.unit, call.cfg, call.rsi_level)]
  /\ UNCHANGED <<call, rng, inv, sim>>

NextCaps == CallCapByRsi \/ CallApplyCaps

SpecCaps == InitCaps /\ [][NextCaps]_vars

\* C14: for every caps configuration and every requested tier the lookup of
\* cap_by_rsi and of apply_caps raises no error, and a tier without an entry
\* gets the caps of the configured 'medium' tier.
C14_TierFallback ==
  /\ ret.fn = "cap_by_rsi" =>
       /\ ~ret.raised
       /\ ~HasEntry(call.caps, call.rsi_level) =>
            /\ ret.unit_mult = RMin2(call.unit_mult, call.caps["medium"].unit_cap)
            /\ ret.br_frac = RMin2(call.br_frac, call.caps["medium"].br_cap)
  /\ ret.fn = "apply_caps" =>
       /\ ~ret.raised
       /\ (~HasEntry(call.cfg.rsi_caps, call.rsi_level)
             /\ HasEntry(call.cfg.rsi_caps, "medium"))
            => ret.rsi = call.cfg.rsi_caps["medium"]

----------------------------------------------------------------------------
(* scripts/slip_stake.py: main, the staking run over the slips of a file.    *)
(* legmap maps the leg ids of bestlines.json to their American price.  A     *)
(* slip is [slip_id, has_legs, legs, p_joint]: has_legs is FALSE when the    *)
(* record has no 'legs' key, and p_joint is the value slip_joint_prob        *)
(* returns for the slip's known legs (seeded, so a function of the slip).    *)

\* round(x, 4)
PyRound4(x) ==
  LET n == x[1] * 10000
      d == x[2]
      q == n \div d
      r == n - q * d
      c == IF 2 * r < d THEN q
           ELSE IF 2 * r > d THEN q + 1
           ELSE IF q % 2 = 0 THEN q ELSE q + 1
  IN  Norm(c, 10000)

\* the loop of lines 35-39: the ids of the slip that have a record, in order
KnownLegs(s, legmap) == SelectSeq(s.legs, LAMBDA lid : lid \in DOMAIN legmap)

\* the entry main appends for a slip whose stake_for_slip call returned res
StakeEntry(s, legs, res) ==
  [slip_id |-> s.slip_id, legs |-> legs, n_legs |-> Len(legs),
   p_joint |-> PyRound4(res.p_joint), decimal_payout |-> PyRound4(res.dec_out),
   kelly_full |-> PyRound4(res.f_full), kelly_used |-> PyRound4(res.f_use),
   stake |-> res.stake]

\* stake_for_slip on the slip's known legs
StakeOf(s, legs, c) ==
  stake_for_slip([k \in 1..Len(legs) |-> c.legmap[legs[k]]], s.p_joint,
                 c.bankroll, c.unit, c.kelly_frac, c.cfg)

MaxRunSlips == 2

RunLegLists == {<<1, 2>>, <<2, 1>>, <<1, 3>>, <<3>>, <<1, 1>>, <<2, 3, 2>>}
RunJointProbs == {Q(1, 4), Q(9, 10)}
RunSlipBodies ==
  [has_legs : {TRUE}, legs : RunLegLists, p_joint : RunJointProbs]
  \cup [has_legs : {FALSE}, legs : {<<>>}, p_joint : {Zero}]
RunSlipLists ==
  UNION {[1..n -> RunSlipBodies] : n \in 0..MaxRunSlips}
\* bestlines.json: missing or empty, two priced legs, and a leg priced 0
RunLegMaps == {<<>>, <<100, -200>>, <<100, 0>>}
RunPolicies ==
  { [rsi_caps |-> [t \in Tiers |-> NoTier], per_slip_unit_cap |-> Missing],
    [rsi_caps |-> [t \in Tiers |-> IF t = "medium" THEN Tier(Q(1, 2), Q(1, 20))
                                   ELSE NoTier],
     per_slip_unit_cap |-> Q(2, 1)] }

\* s.get("slip_id"): the slips of a file are numbered in input order
WithIds(bodies) ==
  [i \in 1..Len(bodies) |->
     [slip_id |-> i, has_legs |-> bodies[i].has_legs, legs |-> bodies[i].legs,
      p_joint |-> bodies[i].p_joint]]

InitRun ==
  /\ \E bodies \in RunSlipLists, lm \in RunLegMaps, pol \in RunPolicies :
       call = [fn |-> "slip_stake", slips |-> WithIds(bodies), legmap |-> lm,
               bankroll |-> Q(1000, 1), unit |-> Q(10, 1), kelly_frac |-> Q(1, 2),
               cfg |-> pol]
  /\ ret = [fn |-> "slip_stake", pc |-> "load", i |-> 1, out |-> <<>>]
  /\ rng = Idle
  /\ inv = Idle
  /\ sim = Idle

\* lines 25-32: without best lines main prints a message and returns
RunLoad ==
  /\ call.fn = "slip_stake"
  /\ ret.pc = "load"
  /\ ret' = [ret EXCEPT !.pc = IF call.legmap = <<>> THEN "no_bestlines" ELSE "loop"]
  /\ UNCHANGED <<call, rng, inv, sim>>

\* lines 34-60: one iteration of the loop over the slips
RunSlip ==
  /\ call.fn = "slip_stake"
  /\ ret.pc = "loop"
  /\ ret.i <= Len(call.slips)
  /\ LET s == call.slips[ret.i]
     IN  IF ~s.has_legs
         THEN ret' = [ret EXCEPT !.pc = "raised"]
         ELSE LET legs == KnownLegs(s, call.legmap)
              IN  IF Len(legs) < 2
                  THEN ret' = [ret EXCEPT !.i = ret.i + 1]
                  ELSE \E res \in {StakeOf(s, legs, call)} :
                         IF res.raised
                         THEN ret' = [ret EXCEPT !.pc = "raised"]
                         ELSE ret' = [ret EXCEPT !.i = ret.i + 1,
                                                 !.out = Append(ret.out, StakeEntry(s, legs, res))]
  /\ UNCHANGED <<call, rng, inv, sim>>

\* lines 62-70: the entries are written once the loop is over
RunWrite ==
  /\ call.fn = "slip_stake"
  /\ ret.pc = "loop"
  /\ ret.i > Len(call.slips)
  /\ ret' = [ret EXCEPT !.pc = "written"]
  /\ UNCHANGED <<call, rng, inv, sim>>

NextRun == RunLoad \/ RunSlip \/ RunWrite

SpecRun == InitRun /\ [][NextRun]_vars

RECURSIVE EntriesOf(_, _)
\* the entries the run owes to the first k slips: none for a slip with fewer
\* than 2 known legs, else the entry of that slip staked on its own
EntriesOf(c, k) ==
  IF k = 0 THEN <<>>
  ELSE LET s == c.slips[k]
           legs == IF s.has_legs THEN KnownLegs(s, c.legmap) ELSE <<>>
       IN  IF Len(legs) < 2 THEN EntriesOf(c, k - 1)
           ELSE Append(EntriesOf(c, k - 1), StakeEntry(s, legs, StakeOf(s, legs, c)))

\* C15: in the staking run a leg id without a record is dropped from its
\* slip, a slip left with fewer than 2 legs gets no entry, every other slip
\* gets its own entry in input order, and no slip aborts the run.
C15_BadSlipSkipped ==
  ret.fn = "slip_stake" =>
    /\ ret.pc # "raised"
    /\ ret.pc = "loop" => ret.out = EntriesOf(call, ret.i - 1)
    /\ ret.pc = "written" => ret.out = EntriesOf(call, Len(call.slips))

----------------------------------------------------------------------------
(* bankroll/sizer.py: KellySizer.calculate_stake.  The sizer holds           *)
(* kelly_fraction and max_bankroll_pct; amounts are exact rationals.         *)

\* Decimal(x).quantize(Decimal("0.01"), rounding=ROUND_DOWN): the digits after
\* the second decimal are dropped, for a negative amount too
QuantizeDown(x) ==
  LET a == (Abs(x[1]) * 100) \div x[2]
  IN  IF x[1] < 0 THEN Norm(-a, 100) ELSE Norm(a, 100)

\* (b*p - q) / b with b = decimal_odds - 1, q = 1 - p
full_kelly_pct(win_prob, decimal_odds) ==
  LET b == RSub(decimal_odds, One)
  IN  RDiv(RSub(RMul(b, win_prob), RSub(One, win_prob)), b)

calculate_stake(self, win_prob, decimal_odds, bankroll, confidence_score) ==
  IF RLe(bankroll, Zero) THEN Zero
  ELSE IF RLe(win_prob, Zero) \/ RLe(One, win_prob) THEN Zero
  ELSE IF RLe(decimal_odds, One) THEN Zero
  ELSE IF RLe(full_kelly_pct(win_prob, decimal_odds), Zero) THEN Zero
  ELSE LET adjusted_kelly_pct ==
             RMul(RMul(full_kelly_pct(win_prob, decimal_odds), self.kelly_fraction),
                  confidence_score)
           final_pct == RMin2(adjusted_kelly_pct, self.max_bankroll_pct)
       IN  QuantizeDown(RMul(bankroll, final_pct))

Sizers ==
  { [kelly_fraction |-> Q(1, 4), max_bankroll_pct |-> Q(1, 20)],
    [kelly_fraction |-> Q(1, 2), max_bankroll_pct |-> Q(1, 10)] }
WinProbs == {Q(-1, 10), Zero, Q(3, 10), Q(3, 5), Q(9, 10), One, Q(6, 5)}
DecimalOdds == {Q(1, 2), One, Q(11, 10), Q(2, 1), Q(7, 2)}
SizerBankrolls == {Q(-100, 1), Zero, Q(201, 2), Q(1000, 1)}
ConfidenceScores == {Q(-1, 1), Zero, Q(1, 3), One, Q(5, 1)}

SizerCalls ==
  [fn : {"calculate_stake"}, self : Sizers, win_prob : WinProbs,
   decimal_odds : DecimalOdds, bankroll : SizerBankrolls,
   confidence_score : ConfidenceScores]

InitSizer ==
  /\ call \in SizerCalls
  /\ ret = NoRet
  /\ rng = Idle
  /\ inv = Idle
  /\ sim = Idle

CallCalculateStake ==
  /\ call.fn = "calculate_stake"
  /\ ret = NoRet
  /\ ret' = [fn |-> "calculate_stake",
             stake |-> calculate_stake(call.self, call.win_prob, call.decimal_odds,
                                       call.bankroll, call.confidence_score)]
  /\ UNCHANGED <<call, rng, inv, sim>>

NextSizer == CallCalculateStake

SpecSizer == InitSizer /\ [][NextSizer]_vars

\* the cases in which calculate_stake must return exactly 0
SizerNoBet ==
  \/ RLe(call.bankroll, Zero)
  \/ RLe(call.win_prob, Zero)
  \/ RLe(One, call.win_prob)
  \/ RLe(call.decimal_odds, One)
  \/ RLe(full_kelly_pct(call.win_prob, call.decimal_odds), Zero)

\* C18: for every win_prob, decimal_odds, bankroll and confidence_score the
\* stake of KellySizer.calculate_stake satisfies 0 <= stake <= bankroll x
\* max_bankroll_pct (the ceiling of a non-positive bankroll being 0), and it
\* is exactly 0 when bankroll <= 0, win_prob is outside (0,1), decimal_odds
\* <= 1 or the full Kelly fraction is <= 0.
C18_SizerBounds ==
  ret.fn = "calculate_stake" =>
    /\ RLe(Zero, ret.stake)
    /\ RLe(ret.stake, RMax2(Zero, RMul(call.bankroll, call.self.max_bankroll_pct)))
    /\ SizerNoBet => ret.stake = Zero


----------------------------------------------------------------------------
(* scripts/corr_fit.py: fit_corr, and the lookup build_corr_submatrix makes  *)
(* in the table it produced.  A row of the history is a record leg_key,      *)
(* date, hit; leg ids are numbered in lexicographic order and dates in       *)
(* chronological order; a coefficient is a number of hundredths.             *)

MaxDates == 2

\* by_leg[k] sorted by date and turned into a dict: the dates leg k has a row
\* for, each with the hit of the last of its rows in the file
DatesOf(rows, k) == {rows[i].date : i \in {i \in DOMAIN rows : rows[i].leg_key = k}}

DictOf(rows, k) ==
  [d \in DatesOf(rows, k) |->
     LET at == {i \in DOMAIN rows : rows[i].leg_key = k /\ rows[i].date = d}
         last == CHOOSE i \in at : \A j \in at : j <= i
     IN  rows[last].hit]

\* phi_corr(a, b) over the common dates, a = [d1[d] for d in common]
phi_corr(d1, d2, common) ==
  LET n == Cardinality(common)
      s1 == Cardinality({d \in common : d1[d] = 1})
      s0 == n - s1
      t1 == Cardinality({d \in common : d2[d] = 1})
      t0 == n - t1
      n11 == Cardinality({d \in common : d1[d] = 1 /\ d2[d] = 1})
      n10 == Cardinality({d \in common : d1[d] = 1 /\ d2[d] = 0})
      n01 == Cardinality({d \in common : d1[d] = 0 /\ d2[d] = 1})
      n00 == n - n11 - n10 - n01
      prod == s1 * s0 * t1 * t0
      num == n11 * n00 - n10 * n01
      mag == IF num < 0 THEN -num ELSE num
  IN  IF prod = 0 THEN 100 * num * 1000000
      ELSE LET q == DivNearest(100 * 1000 * mag, Sqrt(prod * 1000000))
           IN  IF num < 0 THEN -q ELSE q

\* max(-0.95, min(0.95, phi_corr(a,b)))
FitClamp(x) ==
  LET lo == IF x < RhoMax THEN x ELSE RhoMax
  IN  IF lo > RhoMin THEN lo ELSE RhoMin

fit_corr(rows) ==
  LET keyset == {rows[i].leg_key : i \in DOMAIN rows}
      first(k) == CHOOSE i \in DOMAIN rows :
                    rows[i].leg_key = k /\ \A j \in 1..(i - 1) : rows[j].leg_key # k
      common(k1, k2) == DatesOf(rows, k1) \cap DatesOf(rows, k2)
      pairs == {pr \in keyset \X keyset :
                  first(pr[1]) < first(pr[2]) /\ Cardinality(common(pr[1], pr[2])) >= 2}
      stored == {PairKey(pr[1], pr[2]) : pr \in pairs}
  IN  [k \in stored |->
         LET pr == CHOOSE pr \in pairs : PairKey(pr[1], pr[2]) = k
         IN  FitClamp(phi_corr(DictOf(rows, pr[1]), DictOf(rows, pr[2]),
                               common(pr[1], pr[2])))]

\* the histories: for every leg and date a miss (0), a hit (1), or no row (2)
Hists == [LegIds -> [1..MaxDates -> {0, 1, 2}]]
RowOrders == {<<1, 2, 3>>, <<3, 1, 2>>, <<2, 3, 1>>, <<3, 2, 1>>}
FitLegLists == {<<1, 2>>, <<2, 1>>, <<3, 1, 2>>, <<2, 3, 3>>}

\* the rows of leg k, latest date first
LegRows(hist, k) ==
  SelectSeq([i \in 1..MaxDates |->
               [leg_key |-> k, date |-> MaxDates + 1 - i, hit |-> hist[k][MaxDates + 1 - i]]],
            LAMBDA r : r.hit # 2)

RowsOf(hist, order) ==
  LegRows(hist, order[1]) \o LegRows(hist, order[2]) \o LegRows(hist, order[3])

InitFit ==
  /\ \E hist \in Hists, order \in RowOrders, keys \in FitLegLists :
       call = [fn |-> "fit_corr", rows |-> RowsOf(hist, order), leg_keys |-> keys]
  /\ ret = NoRet
  /\ rng = Idle
  /\ inv = Idle
  /\ sim = Idle

CallFitCorr ==
  /\ call.fn = "fit_corr"
  /\ ret = NoRet
  /\ ret' = [fn |-> "fit_corr", corr |-> fit_corr(call.rows)]
  /\ UNCHANGED <<call, rng, inv, sim>>

\* build_corr_submatrix reads the table fit_corr wrote
CallBuildFromFit ==
  /\ ret.fn = "fit_corr"
  /\ ret' = [fn |-> "build_from_fit", corr |-> ret.corr,
             R |-> build_corr_submatrix(call.leg_keys, ret.corr)]
  /\ UNCHANGED <<call, rng, inv, sim>>

NextFit == CallFitCorr \/ CallBuildFromFit

SpecFit == InitFit /\ [][NextFit]_vars

PermutationsOf(n) == {f \in [1..n -> 1..n] : \A i, j \in 1..n : f[i] = f[j] => i = j}

\* C24: fit_corr stores every coefficient within [-0.95, 0.95] under the key
\* of the two leg ids in lexicographic order; build_corr_submatrix finds the
\* coefficient of a pair whichever order its two ids have in the leg list;
\* and permuting the leg list permutes rows and columns of the matrix alike.
C24_LookupOrderIndependent ==
  ret.fn = "build_from_fit" =>
    LET keys == call.leg_keys
        n == Len(keys)
    IN  /\ \A k \in DOMAIN ret.corr :
             k[1] < k[2] /\ ret.corr[k] >= -95 /\ ret.corr[k] <= 95
        /\ \A i, j \in 1..n :
             i # j => ret.R[i][j] = PairValue(ret.corr, keys[i], keys[j])
        /\ \A f \in PermutationsOf(n) :
             LET Rf == build_corr_submatrix([i \in 1..n |-> keys[f[i]]], ret.corr)
             IN  \A i, j \in 1..n : Rf[i][j] = ret.R[f[i]][f[j]]

\* the history names leg 2 before leg 1, the leg list leg 1 before leg 2,
\* and the coefficient of the pair, clamped from -1, is found
C24_Witness ==
  /\ ret.fn = "build_from_fit"
  /\ Len(call.rows) > 0
  /\ call.rows[1].leg_key = 2
  /\ call.leg_keys = <<3, 1, 2>>
  /\ <<1, 2>> \in DOMAIN ret.corr
  /\ ret.corr[<<1, 2>>] = -95
  /\ ret.R[2][3] = -95 /\ ret.R[3][2] = -95

----------------------------------------------------------------------------
(* stress/monte.py and scripts/stress_run.py: the path P&L of simulate in    *)
(* float arithmetic, its mean, and the VaR and ES var_es derives from the    *)
(* paths.  Every slip has one known leg priced +100, so dec = 2.0 and the    *)
(* win of a slip, stake * (dec - 1.0), is its stake; outcomes[r][k] tells    *)
(* whether all(slip_outcomes) holds for slip k on path r.                    *)

MaxLossSlips == 2
MaxLossPaths == 3

\* lines 49-62: pnl = 0.0, then pnl += p for every slip
PathPnlFloat(stakes, won) ==
  FlSum([k \in 1..Len(stakes) |-> IF won[k] THEN stakes[k] ELSE -stakes[k]])

\* lines 45-68: path_pnl and mean = sum(path_sorted)/n
simulate_float(stakes, outcomes) ==
  LET path_pnl == [r \in 1..Len(outcomes) |-> PathPnlFloat(stakes, outcomes[r])]
      n == Len(path_pnl)
  IN  [fn |-> "simulate", path_pnl |-> path_pnl,
       mean |-> IF n > 0 THEN FlDiv(FlSum(sorted(path_pnl)), n) ELSE 0]

\* stakes, all of them floats
LossStakes == {0, 5, 6, 7}
LossAlphas == {Q(1, 20), One}

InitLoss ==
  /\ \E m \in 1..MaxLossSlips, n \in 1..MaxLossPaths, alpha \in LossAlphas :
       \E stakes \in [1..m -> LossStakes], outcomes \in [1..n -> [1..m -> BOOLEAN]] :
         call = [fn |-> "stress_run", stakes |-> stakes, outcomes |-> outcomes,
                 alpha |-> alpha]
  /\ ret = NoRet
  /\ rng = Idle
  /\ inv = Idle
  /\ sim = Idle

\* stress_run.py line 48: simulate
CallSimulate ==
  /\ call.fn = "stress_run"
  /\ ret = NoRet
  /\ ret' = simulate_float(call.stakes, call.outcomes)
  /\ UNCHANGED <<call, rng, inv, sim>>

\* stress_run.py line 49: var_es on the paths simulate returned
CallVarEsOfPaths ==
  /\ ret.fn = "simulate"
  /\ \E ve \in {var_es(ret.path_pnl, call.alpha)} :
       ret' = [fn |-> "stress_run", path_pnl |-> ret.path_pnl, mean |-> ret.mean,
               var |-> ve.var, es |-> ve.es]
  /\ UNCHANGED <<call, rng, inv, sim>>

NextLoss == CallSimulate \/ CallVarEsOfPaths

SpecLoss == InitLoss /\ [][NextLoss]_vars

RECURSIVE IntSum(_)
IntSum(seq) == IF seq = <<>> THEN 0 ELSE Head(seq) + IntSum(Tail(seq))

\* C30: with non-negative stakes every path P&L of simulate lies between
\* minus the sum of the stakes (of the slips with a known leg) and the sum of
\* stake*(D-1) over those slips, and the mean, the VaR and the ES never show
\* a loss larger than the total amount staked.
C30_LossWithinStakes ==
  ret.fn \in {"simulate", "stress_run"} =>
    LET total == IntSum(call.stakes)
    IN  /\ \A r \in 1..Len(ret.path_pnl) :
             ret.path_pnl[r] >= -total /\ ret.path_pnl[r] <= total
        /\ ret.mean >= -total
        /\ ret.fn = "stress_run" => (ret.var >= -total /\ ret.es >= -total)

----------------------------------------------------------------------------
(* sliprisk/slip_kelly_v3.py: DomainAwareKelly.calculate_stake, in float     *)
(* arithmetic.  FlOne units make 1.0; a domain_iii of NoDomain is None,      *)
(* otherwise it holds lower_bound and upper_bound.                           *)

FlOne == Pow2(10)

FlSub(x, y) == FlRound(x - y, 1)
\* x * y and x / y of two floats counted in units
FlMul(x, y) == FlRound(x * y, FlOne)
FlQuot(x, y) == FlRound(x * FlOne, y)
\* the float a decimal literal n/d denotes
FlLit(n, d) == FlRound(n * FlOne, d)

NoDomain == [lower_bound |-> 0, upper_bound |-> 0, none |-> TRUE]

\* lines 122-127
Recommendation(final_stake) ==
  IF final_stake >= FlLit(2, 100) THEN "BET"
  ELSE IF final_stake >= FlLit(5, 1000) THEN "SMALL_BET"
  ELSE "PASS"

DomainAwareKelly_calculate_stake(self, edge, odds, domain_iii) ==
  IF edge < self.min_edge
  THEN [fn |-> "DomainAwareKelly.calculate_stake", raised |-> FALSE,
        full_kelly |-> 0, fractional_kelly |-> 0, confidence_factor |-> 0,
        final_stake |-> 0, recommendation |-> IF edge > 0 THEN "PASS" ELSE "AVOID"]
  ELSE IF odds = 0 \/ odds = FlOne
  THEN [fn |-> "DomainAwareKelly.calculate_stake", raised |-> TRUE,
        full_kelly |-> 0, fractional_kelly |-> 0, confidence_factor |-> 0,
        final_stake |-> 0, recommendation |-> "ZeroDivisionError"]
  ELSE LET market_prob == FlQuot(FlOne, odds)
           model_prob == FlAdd(market_prob, edge)
           b == FlSub(odds, FlOne)
           pp == model_prob
           q == FlSub(FlOne, pp)
           full_kelly == FlQuot(FlSub(FlMul(b, pp), q), b)
           fractional_kelly == FlMul(full_kelly, self.kelly_fraction)
           ci_width == FlSub(domain_iii.upper_bound, domain_iii.lower_bound)
           confidence_factor ==
             IF self.ci_penalty /\ ~domain_iii.none
             THEN Max2(FlLit(1, 2), FlSub(FlOne, FlMul(ci_width, 2 * FlOne)))
             ELSE FlOne
           adjusted == FlMul(fractional_kelly, confidence_factor)
           final_stake == IF adjusted <= self.max_stake THEN adjusted ELSE self.max_stake
       IN  [fn |-> "DomainAwareKelly.calculate_stake", raised |-> FALSE,
            full_kelly |-> full_kelly, fractional_kelly |-> fractional_kelly,
            confidence_factor |-> confidence_factor, final_stake |-> final_stake,
            recommendation |-> Recommendation(final_stake)]

\* inputs, all of them floats: 32 units are 0.03125, 1280 units are 1.25
DomainKellys ==
  [kelly_fraction : {256, 512}, max_stake : {16, 48}, min_edge : {0, 32},
   ci_penalty : BOOLEAN]
DomainEdges == {-32, 0, 16, 32, 64, 128}
DomainOdds == {1024, 1280, 1536, 2048, 3072, 5120}
DomainIIIs == {NoDomain,
               [lower_bound |-> 384, upper_bound |-> 512, none |-> FALSE],
               [lower_bound |-> 256, upper_bound |-> 768, none |-> FALSE]}
DomainKellyCalls ==
  [fn : {"DomainAwareKelly.calculate_stake"}, self : DomainKellys, edge : DomainEdges,
   odds : DomainOdds, domain_iii : DomainIIIs]

InitDomainKelly ==
  /\ call \in DomainKellyCalls
  /\ ret = NoRet
  /\ rng = Idle
  /\ inv = Idle
  /\ sim = Idle

CallDomainKelly ==
  /\ call.fn = "DomainAwareKelly.calculate_stake"
  /\ ret = NoRet
  /\ ret' = DomainAwareKelly_calculate_stake(call.self, call.edge, call.odds, call.domain_iii)
  /\ UNCHANGED <<call, rng, inv, sim>>

NextDomainKelly == CallDomainKelly

SpecDomainKelly == InitDomainKelly /\ [][NextDomainKelly]_vars

\* C29: final_stake is 0 with PASS (edge > 0) or AVOID (edge <= 0) whenever
\* edge < min_edge; otherwise, for odds > 1 and min_edge >= 0, final_stake
\* lies in [0, max_stake] and the recommendation is BET iff final_stake >=
\* 0.02, SMALL_BET iff 0.005 <= final_stake < 0.02, and PASS below 0.005.
C29_DomainKellyStake ==
  ret.fn = "DomainAwareKelly.calculate_stake" =>
    IF call.edge < call.self.min_edge
    THEN /\ ret.final_stake = 0
         /\ ret.recommendation = IF call.edge > 0 THEN "PASS" ELSE "AVOID"
    ELSE (call.odds > FlOne /\ call.self.min_edge >= 0) =>
         /\ ~ret.raised
         /\ ret.final_stake >= 0
         /\ ret.final_stake <= call.self.max_stake
         /\ ret.recommendation = "BET" <=> ret.final_stake >= FlLit(2, 100)
         /\ ret.recommendation = "SMALL_BET" <=>
              (ret.final_stake >= FlLit(5, 1000) /\ ret.final_stake < FlLit(2, 100))
         /\ ret.recommendation = "PASS" <=> ret.final_stake < FlLit(5, 1000)

----------------------------------------------------------------------------
(* bankroll/manager.py: the per-leg staking pipeline.  A leg is a record     *)
(* marginal_p, best_american; templates_cfg maps a template name to its      *)
(* min_unit and max_unit, Missing standing for a key the template lacks.     *)

\* bankroll/kelly.py: fractional_kelly
fractional_kelly(p, american, frac) == RMul(bankroll_kelly_fraction(p, american), frac)

\* the stake, or Missing when cap_by_rsi raised
suggest_stake_for_leg(leg, bankroll, unit, kelly_frac, rsi_level, rsi_caps) ==
  LET fk == fractional_kelly(leg.marginal_p, leg.best_american, kelly_frac)
      capped == cap_by_rsi(One, fk, rsi_level, rsi_caps)
  IN  IF capped.raised THEN Missing
      ELSE LET s_by_unit == RMul(capped.unit_mult, unit)
               s_by_br == RMul(capped.br_frac, bankroll)
               s_by_kelly == RMul(fk, bankroll)
               stake == RMin3(s_by_unit, s_by_br, s_by_kelly)
           IN  PyRound2(RMax2(Zero, stake))

\* t.get(key, default) on the template templates_cfg.get(template_name, {})
TemplateGet(templates_cfg, template_name, key, default) ==
  IF template_name \in DOMAIN templates_cfg /\ IsNum(templates_cfg[template_name][key])
  THEN templates_cfg[template_name][key]
  ELSE default

enforce_template(stake, unit, template_name, templates_cfg) ==
  LET min_u == TemplateGet(templates_cfg, template_name, "min_unit", Zero)
      max_u == TemplateGet(templates_cfg, template_name, "max_unit", Q(10, 1))
      units == IF RLe(unit, Zero) THEN Zero ELSE RDiv(stake, unit)
      clamped == RMax2(min_u, RMin2(units, max_u))
  IN  PyRound2(RMul(clamped, unit))

\* the 'stake' of every entry of out, <<>> with raised when cap_by_rsi raised
process_legs(priced_bestlines, bankroll, unit, kelly_frac, rsi_level, rsi_caps, template_name, templates_cfg) ==
  LET stake0(leg) == suggest_stake_for_leg(leg, bankroll, unit, kelly_frac, rsi_level, rsi_caps)
      n == Len(priced_bestlines)
  IN  IF \E i \in 1..n : ~IsNum(stake0(priced_bestlines[i]))
      THEN [fn |-> "process_legs", raised |-> TRUE, out |-> <<>>]
      ELSE [fn |-> "process_legs", raised |-> FALSE,
            out |-> [i \in 1..n |->
                       enforce_template(stake0(priced_bestlines[i]), unit,
                                        template_name, templates_cfg)]]

PricedLegs == [marginal_p : {Q(3, 10), Q(3, 5)}, best_american : {100, -200}]
PricedLists == UNION {[1..n -> PricedLegs] : n \in 1..MaxLegs}
LegUnits == {Zero, Q(10, 1)}
TemplateNames == {"core", "spray"}
TemplateCfgs ==
  { <<>>,
    [t \in {"core"} |-> [min_unit |-> Missing, max_unit |-> Q(1, 2)]],
    [t \in {"core"} |-> [min_unit |-> Q(1, 2), max_unit |-> Q(2, 1)]] }

InitLegs ==
  /\ call \in [fn : {"process_legs"}, priced_bestlines : PricedLists,
               bankroll : {Q(1000, 1)}, unit : LegUnits, kelly_frac : {Q(1, 2)},
               rsi_level : {"medium", "high"}, rsi_caps : {pol.rsi_caps : pol \in Policies},
               template_name : TemplateNames, templates_cfg : TemplateCfgs]
  /\ ret = NoRet
  /\ rng = Idle
  /\ inv = Idle
  /\ sim = Idle

CallProcessLegs ==
  /\ call.fn = "process_legs"
  /\ ret = NoRet
  /\ ret' = process_legs(call.priced_bestlines, call.bankroll, call.unit, call.kelly_frac,
                         call.rsi_level, call.rsi_caps, call.template_name,
                         call.templates_cfg)
  /\ UNCHANGED <<call, rng, inv, sim>>

NextLegs == CallProcessLegs

SpecLegs == InitLegs /\ [][NextLegs]_vars

\* ev of a leg: p * (decimal - 1) - (1 - p)
LegEdge(leg) ==
  RSub(RMul(leg.marginal_p, RSub(american_to_decimal(leg.best_american), One)),
       RSub(One, leg.marginal_p))

\* C27: the per-leg pipeline only clamps downward: the stake process_legs
\* reports after enforce_template is never greater than the amount
\* suggest_stake_for_leg computed, and a leg with non-positive edge is
\* reported with stake 0.
C27_LegStakeOnlyClampedDown ==
  (ret.fn = "process_legs" /\ ~ret.raised) =>
    \A i \in 1..Len(ret.out) :
      LET leg == call.priced_bestlines[i]
          stake0 == suggest_stake_for_leg(leg, call.bankroll, call.unit, call.kelly_frac,
                                          call.rsi_level, call.rsi_caps)
      IN  /\ RLe(ret.out[i], stake0)
          /\ RLe(LegEdge(leg), Zero) => ret.out[i] = Zero

============================================================================
